---- MODULE Spec2Model ----
(***************************************************************************)
(* Model of the story-image generator's App component (src/App.tsx): the   *)
(* React state of the component, its event handlers, the continuations of  *)
(* their asynchronous calls and the auto-analyze effect.                   *)
(*                                                                         *)
(* The React state is one record, `state`; a handler is the composition    *)
(* of its setState calls, applied to the state of the render it runs in.   *)
(* Calls awaiting completion are kept in bags, one per kind of call, each  *)
(* element holding what the call's closure captured when it was launched.  *)
(* The effect of lines 106-110 runs after every commit that changed one of *)
(* its dependencies and before the next event, so it is part of the action *)
(* that caused the commit.                                                 *)
(***************************************************************************)
EXTENDS Integers, FiniteSets, Bags, TLC

\* ---------------------------------------------------------------- bounds
MaxOps == 6        \* user operations in one run
MaxLiveOps == 4    \* user operations in one run of the fair specification
MaxDirectOps == 5  \* operations in one run of the direct specification
MaxSmallDim == 4   \* source images have sides of 1..MaxSmallDim pixels, or
DimWindow == 100   \* of MAX_DIMENSION - DimWindow..MAX_DIMENSION + DimWindow

\* ---------------------------------------------------------------- values
null == "null"
Files == {"I1", "I2"}                 \* data URLs a chosen file encodes to
Urls == {"u1"}                        \* texts typed in the URL field
UrlImage == "J1"                      \* data URL urlToDataUrl resolves with
Images == Files \cup {UrlImage}
GatewayTexts == {"T1", "T2"}          \* texts generatePromptFromImage returns
UserTexts == {"", "U1"}               \* texts typed in the prompt text area
FinalImages == {"F1", "F2"}           \* images composeStoryImage returns

defaultPrompt == "default"
analyzeErrorMessage == "analyze-failed-describe-manually"
composeErrorMessage == "compose-failed-try-again"
unknownImportMessage == "unknown-import-error"
\* the messages of the Errors the Gateway functions throw
gatewayComposeMessage == "gateway-compose-failed"
gatewayDescribeMessage == "gateway-describe-failed"
GatewayMessages == {gatewayComposeMessage, gatewayDescribeMessage}
\* the messages urlToDataUrl rejects with
NormalizerMessages == {"no-2d-context", "no-data-url", "image-load-failed"}

VARIABLES state, fileReads, urlCalls, describeCalls, composeCalls, opsLeft,
          last, quiet, loadedImage, finalFrom

vars ==
  <<state, fileReads, urlCalls, describeCalls, composeCalls, opsLeft, last,
    quiet, loadedImage, finalFrom>>

\* ---------------------------------------------------------------- urlToDataUrl
\* `loadedImage` is the Image element of a call of urlToDataUrl with the
\* canvas its onload handler sizes; the specifications of App keep it
\* unloaded, the outcome of an import not depending on the dimensions.
MAX_DIMENSION == 1024

RECURSIVE Log2Floor(_)
Log2Floor(n) == IF n < 2 THEN 0 ELSE 1 + Log2Floor(n \div 2)

RECURSIVE PowMod2(_, _)
PowMod2(e, b) == IF e = 0 THEN 1 % b ELSE (2 * PowMod2(e - 1, b)) % b

\* ratio = MAX_DIMENSION / big is an IEEE double: the quotient rounded to
\* 53 significant bits. For 2^j <= big < 2^(j+1) it is
\* (2^K - ratioError(big)) / (big * 2^(K - 10)) with K = 53 + j, where
\* ratioError(big) is the remainder of 2^K by big taken nearest to zero.
ratioExponent(big) == 53 + Log2Floor(big)

ratioError(big) ==
  IF 2 ^ Log2Floor(big) = big
    THEN 0
    ELSE LET r == PowMod2(ratioExponent(big), big)
         IN  IF 2 * r < big THEN r ELSE r - big

\* the integer a canvas dimension keeps of x * ratio: the product, rounded
\* to a double, truncated. The exact product is
\* MAX_DIMENSION * x / big - (x / big) * ratioError(big) / 2^(K - 10); it
\* rounds below the integer N = MAX_DIMENSION * x / big only when that
\* quotient is exact and the error exceeds half the spacing of the doubles
\* below N.
scaledDimension(x, big) ==
  LET K == ratioExponent(big)
      rs == ratioError(big)
      N == (MAX_DIMENSION * x) \div big
      a == Log2Floor(N)
      half == IF 2 ^ a = N THEN 2 ^ (K + a - 54) ELSE 2 ^ (K + a - 53)
  IN  IF (MAX_DIMENSION * x) % big # 0
        THEN N
        ELSE IF rs > 0 /\ N * rs > half THEN N - 1 ELSE N

\* the canvas of img.onload for an image of w by h pixels
canvasSize(w, h) ==
  IF w > MAX_DIMENSION \/ h > MAX_DIMENSION
    THEN LET big == IF w >= h THEN w ELSE h
         IN  [width |-> scaledDimension(w, big),
              height |-> scaledDimension(h, big)]
    ELSE [width |-> w, height |-> h]

\* a canvas as document.createElement makes it
newCanvas == [width |-> 300, height |-> 150]

unloadedImage ==
  [naturalWidth |-> 0, naturalHeight |-> 0, loaded |-> FALSE,
   canvas |-> newCanvas]

Dims ==
  (1..MaxSmallDim)
    \cup ((MAX_DIMENSION - DimWindow)..(MAX_DIMENSION + DimWindow))

\* ---------------------------------------------------------------- state
initialState ==
  [productImage |-> null, prompt |-> defaultPrompt, isLoading |-> FALSE,
   error |-> null, finalImageURI |-> null, productUrl |-> "",
   isLoadingUrl |-> FALSE, isGeneratingPrompt |-> FALSE]

\* `finalFrom` is the product image that the compose call whose result was
\* last installed as finalImageURI had been launched with.
\* `quiet` holds from a click on the start-over button until the next user
\* operation: the completions that happen meanwhile are those of calls
\* launched before that reset (or by such completions).
\* `last` is what the last step was: its kind, the image, text and message
\* it carried, whether the effect launched an analysis in it, and how far
\* the steps up to it follow the run "file I1 chosen, read, described as
\* T1, generate clicked, composed as F1" with no other step in between
runNext(run, op, img, text) ==
  CASE op = "upload" /\ img = "I1" -> 1
    [] run = 1 /\ op = "fileLoaded" /\ img = "I1" -> 2
    [] run = 2 /\ op = "describeOk" /\ img = "I1" /\ text = "T1" -> 3
    [] run = 3 /\ op = "generate" -> 4
    [] run = 4 /\ op = "composeOk" /\ img = "F1" -> 5
    [] OTHER -> 0

Step(op, img, text, err, auto) ==
  [op |-> op, img |-> img, text |-> text, err |-> err, auto |-> auto,
   run |-> runNext(last.run, op, img, text)]

initialStep ==
  [op |-> "init", img |-> null, text |-> "", err |-> null, auto |-> FALSE,
   run |-> 0]

Init ==
  /\ state = initialState
  /\ fileReads = EmptyBag
  /\ urlCalls = EmptyBag
  /\ describeCalls = EmptyBag
  /\ composeCalls = EmptyBag
  /\ opsLeft = MaxOps
  /\ last = initialStep
  /\ quiet = FALSE
  /\ loadedImage = unloadedImage
  /\ finalFrom = null

\* ---------------------------------------------------------------- handlers
\* a variant that clears the analysis flag too
handleReset_clearsGenerating(s) ==
  [s EXCEPT !.productImage = null, !.finalImageURI = null, !.error = null,
            !.isLoading = FALSE, !.productUrl = "", !.isLoadingUrl = FALSE,
            !.prompt = defaultPrompt, !.isGeneratingPrompt = FALSE]

\* a variant that negates the composing flag instead of clearing it
handleReset_togglesLoading(s) ==
  [s EXCEPT !.productImage = null, !.finalImageURI = null, !.error = null,
            !.isLoading = ~s.isLoading, !.productUrl = "",
            !.isLoadingUrl = FALSE, !.prompt = defaultPrompt]

handleReset(s) ==
  [s EXCEPT !.productImage = null, !.finalImageURI = null, !.error = null,
            !.isLoading = FALSE, !.productUrl = "", !.isLoadingUrl = FALSE,
            !.prompt = defaultPrompt]

\* handleAnalyzeImage up to its await
analyzeStart(s) == [s EXCEPT !.isGeneratingPrompt = TRUE, !.error = null]

\* a variant that discards the text of a call launched for another image
analyzeResolved_discardsStale(s, img, text) ==
  IF img = s.productImage
    THEN [s EXCEPT !.prompt = text, !.isGeneratingPrompt = FALSE]
    ELSE [s EXCEPT !.isGeneratingPrompt = FALSE]

\* handleAnalyzeImage after generatePromptFromImage(img) returned text
analyzeResolved(s, img, text) ==
  [s EXCEPT !.prompt = text, !.isGeneratingPrompt = FALSE]

\* a variant that keeps the prompt on failure
analyzeRejected_keepsPrompt(s, img) ==
  [s EXCEPT !.error = analyzeErrorMessage, !.isGeneratingPrompt = FALSE]

\* handleAnalyzeImage after generatePromptFromImage(img) threw
analyzeRejected(s, img) ==
  [s EXCEPT !.error = analyzeErrorMessage, !.prompt = defaultPrompt,
            !.isGeneratingPrompt = FALSE]

\* a variant that analyzes only an image installed over an absent one
analyzeFires_onlyFromAbsent(s, t) ==
  /\ s.productImage = null
  /\ t.productImage # null
  /\ t.finalImageURI = null

\* the effect's dependencies changed in the commit from s to t and its
\* condition holds in t
analyzeFires(s, t) ==
  /\ (t.productImage # s.productImage \/ t.finalImageURI # s.finalImageURI)
  /\ t.productImage # null
  /\ t.finalImageURI = null

\* the state and the pending analyses after the commit from s to t
afterEffect(s, t) == IF analyzeFires(s, t) THEN analyzeStart(t) ELSE t

describeAfterEffect(s, t) ==
  IF analyzeFires(s, t)
    THEN describeCalls (+) SetToBag({[img |-> t.productImage]})
    ELSE describeCalls

\* a variant without the early return
urlImportReturnsEarly_never(s) == FALSE

\* the early return of handleUrlImport
urlImportReturnsEarly(s) == s.productUrl = ""

\* handleUrlImport up to its await
urlImportStart(s) ==
  [handleReset(s) EXCEPT !.isLoadingUrl = TRUE, !.error = null]

\* handleUrlImport after urlToDataUrl resolved with dataUrl
urlImportResolved(s, dataUrl) ==
  [s EXCEPT !.productImage = dataUrl, !.productUrl = "",
            !.isLoadingUrl = FALSE]

\* a variant without the finally block on the failure path
urlImportRejected_flagKept(s, message) ==
  [s EXCEPT !.error = IF message # "" THEN message ELSE unknownImportMessage]

\* handleUrlImport after urlToDataUrl rejected with an Error of that message
urlImportRejected(s, message) ==
  [s EXCEPT !.error = IF message # "" THEN message ELSE unknownImportMessage,
            !.isLoadingUrl = FALSE]

\* a variant that tests the prompt only
generateReturnsEarly_promptOnly(s) == s.prompt = ""

\* the early return of handleGenerate
generateReturnsEarly(s) == s.prompt = "" \/ s.productImage = null

\* handleGenerate up to its await
generateStart(s) ==
  [s EXCEPT !.isLoading = TRUE, !.error = null, !.finalImageURI = null]

\* a variant without the finally block on the success path
generateResolved_keepsLoading(s, finalImage) ==
  [s EXCEPT !.finalImageURI = finalImage]

\* handleGenerate after composeStoryImage returned finalImage
generateResolved(s, finalImage) ==
  [s EXCEPT !.finalImageURI = finalImage, !.isLoading = FALSE]

\* a variant that shows the message of the Error composeStoryImage threw
generateRejected_rawMessage(s) ==
  [s EXCEPT !.error = gatewayComposeMessage, !.isLoading = FALSE]

\* handleGenerate after composeStoryImage threw
generateRejected(s) ==
  [s EXCEPT !.error = composeErrorMessage, !.isLoading = FALSE]

\* ---------------------------------------------------------------- commits
\* a commit of state t by a step of kind op; the effect runs after it
Commit(t, op, img, text, err) ==
  /\ state' = afterEffect(state, t)
  /\ describeCalls' = describeAfterEffect(state, t)
  /\ last' = Step(op, img, text, err, analyzeFires(state, t))

\* a user operation other than the start-over button
UserOp ==
  /\ opsLeft > 0
  /\ opsLeft' = opsLeft - 1
  /\ quiet' = FALSE
  /\ UNCHANGED <<loadedImage, finalFrom>>

\* the completion of an asynchronous call
Completion == UNCHANGED <<opsLeft, quiet, loadedImage, finalFrom>>

\* ---------------------------------------------------------------- actions
\* a file is chosen in the file input (reachable while the drop zone is
\* clickable)
handleImageUpload ==
  /\ ~state.isLoadingUrl
  /\ UserOp
  /\ \E f \in Files :
       /\ fileReads' = fileReads (+) SetToBag({[file |-> f]})
       /\ Commit(handleReset(state), "upload", f, "", null)
  /\ UNCHANGED <<urlCalls, composeCalls>>

\* reader.onloadend: reader.result is the data URL, or null when the read
\* failed
readerOnloadend ==
  /\ \E r \in BagToSet(fileReads) :
       /\ fileReads' = fileReads (-) SetToBag({r})
       /\ \E result \in {r.file, null} :
            Commit([state EXCEPT !.productImage = result],
                   "fileLoaded", result, "", null)
  /\ Completion
  /\ UNCHANGED <<urlCalls, composeCalls>>

\* typing in the URL field
setProductUrl ==
  /\ ~state.isLoadingUrl
  /\ UserOp
  /\ \E u \in Urls \cup {""} :
       /\ u # state.productUrl
       /\ Commit([state EXCEPT !.productUrl = u], "urlEdit", null, u, null)
  /\ UNCHANGED <<fileReads, urlCalls, composeCalls>>

\* a call of handleUrlImport, up to its await
handleUrlImportCall ==
  /\ UserOp
  /\ IF urlImportReturnsEarly(state)
       THEN /\ UNCHANGED <<state, describeCalls, urlCalls>>
            /\ last' = Step("urlImport", null, state.productUrl, null, FALSE)
       ELSE /\ urlCalls' = urlCalls (+) SetToBag({[url |-> state.productUrl]})
            /\ Commit(urlImportStart(state), "urlImport", null,
                      state.productUrl, null)
  /\ UNCHANGED <<fileReads, composeCalls>>

\* the import button is enabled
importEnabled == state.productUrl # "" /\ ~state.isLoadingUrl

\* the import button
handleUrlImport == importEnabled /\ handleUrlImportCall

handleUrlImportResolved ==
  /\ \E c \in BagToSet(urlCalls) :
       /\ urlCalls' = urlCalls (-) SetToBag({c})
       /\ Commit(urlImportResolved(state, UrlImage), "urlOk", UrlImage,
                 c.url, null)
  /\ Completion
  /\ UNCHANGED <<fileReads, composeCalls>>

handleUrlImportRejected ==
  /\ \E c \in BagToSet(urlCalls) :
       /\ urlCalls' = urlCalls (-) SetToBag({c})
       /\ \E m \in NormalizerMessages :
            Commit(urlImportRejected(state, m), "urlFail", null, c.url, m)
  /\ Completion
  /\ UNCHANGED <<fileReads, composeCalls>>

\* the re-suggest button
handleAnalyzeImage ==
  /\ state.productImage # null
  /\ ~state.isGeneratingPrompt /\ ~state.isLoading
  /\ UserOp
  /\ IF state.productImage = null
       THEN UNCHANGED <<state, describeCalls, last>>
       ELSE /\ state' = analyzeStart(state)
            /\ describeCalls' =
                 describeCalls (+) SetToBag({[img |-> state.productImage]})
            /\ last' = Step("analyze", state.productImage, "", null, FALSE)
  /\ UNCHANGED <<fileReads, urlCalls, composeCalls>>

handleAnalyzeImageResolved ==
  /\ \E c \in BagToSet(describeCalls), text \in GatewayTexts :
       /\ state' = analyzeResolved(state, c.img, text)
       /\ describeCalls' = describeCalls (-) SetToBag({c})
       /\ last' = Step("describeOk", c.img, text, null, FALSE)
  /\ Completion
  /\ UNCHANGED <<fileReads, urlCalls, composeCalls>>

handleAnalyzeImageRejected ==
  /\ \E c \in BagToSet(describeCalls) :
       /\ state' = analyzeRejected(state, c.img)
       /\ describeCalls' = describeCalls (-) SetToBag({c})
       /\ last' = Step("describeFail", c.img, "", analyzeErrorMessage, FALSE)
  /\ Completion
  /\ UNCHANGED <<fileReads, urlCalls, composeCalls>>

\* typing in the prompt text area
setPrompt ==
  /\ state.productImage # null
  /\ ~state.isLoading /\ ~state.isGeneratingPrompt
  /\ UserOp
  /\ \E t \in UserTexts :
       /\ t # state.prompt
       /\ Commit([state EXCEPT !.prompt = t], "promptEdit", null, t, null)
  /\ UNCHANGED <<fileReads, urlCalls, composeCalls>>

\* a call of handleGenerate, up to its await
handleGenerateCall ==
  /\ UserOp
  /\ IF generateReturnsEarly(state)
       THEN /\ UNCHANGED <<state, describeCalls, composeCalls>>
            /\ last' = Step("generate", state.productImage, state.prompt,
                            null, FALSE)
       ELSE /\ composeCalls' = composeCalls (+)
                 SetToBag({[img |-> state.productImage,
                            prompt |-> state.prompt]})
            /\ Commit(generateStart(state), "generate", state.productImage,
                      state.prompt, null)
  /\ UNCHANGED <<fileReads, urlCalls>>

\* the generate button is enabled
generateEnabled ==
  /\ state.productImage # null /\ state.prompt # ""
  /\ ~state.isLoading /\ ~state.isLoadingUrl /\ ~state.isGeneratingPrompt

\* the generate button
handleGenerate == generateEnabled /\ handleGenerateCall

handleGenerateResolved ==
  /\ \E c \in BagToSet(composeCalls), f \in FinalImages :
       /\ composeCalls' = composeCalls (-) SetToBag({c})
       /\ Commit(generateResolved(state, f), "composeOk", f, c.prompt, null)
       /\ finalFrom' = c.img
  /\ UNCHANGED <<opsLeft, quiet, loadedImage>>
  /\ UNCHANGED <<fileReads, urlCalls>>

handleGenerateRejected ==
  /\ \E c \in BagToSet(composeCalls) :
       /\ composeCalls' = composeCalls (-) SetToBag({c})
       /\ Commit(generateRejected(state), "composeFail", c.img, c.prompt,
                 composeErrorMessage)
  /\ Completion
  /\ UNCHANGED <<fileReads, urlCalls>>

\* a call of handleReset on its own; the step records whether the step
\* before it was such a call too
handleResetCall ==
  /\ opsLeft > 0
  /\ opsLeft' = opsLeft - 1
  /\ quiet' = TRUE
  /\ UNCHANGED <<loadedImage, finalFrom>>
  /\ Commit(handleReset(state), "reset", null,
            IF last.op = "reset" THEN "again" ELSE "", null)
  /\ UNCHANGED <<fileReads, urlCalls, composeCalls>>

\* the start-over button, rendered while a product image is present
handleResetClick == state.productImage # null /\ handleResetCall

Next ==
  \/ handleImageUpload
  \/ readerOnloadend
  \/ setProductUrl
  \/ handleUrlImport
  \/ handleUrlImportResolved
  \/ handleUrlImportRejected
  \/ handleAnalyzeImage
  \/ handleAnalyzeImageResolved
  \/ handleAnalyzeImageRejected
  \/ setPrompt
  \/ handleGenerate
  \/ handleGenerateResolved
  \/ handleGenerateRejected
  \/ handleResetClick

Spec == Init /\ [][Next]_vars

\* the handlers called directly, in the states where the control that
\* calls them is disabled or not rendered
handleGenerateDirect == ~generateEnabled /\ handleGenerateCall
handleUrlImportDirect == ~importEnabled /\ handleUrlImportCall
handleResetDirect == state.productImage = null /\ handleResetCall

NextDirect ==
  \/ Next
  \/ handleGenerateDirect
  \/ handleUrlImportDirect
  \/ handleResetDirect

InitDirect ==
  /\ state = initialState
  /\ fileReads = EmptyBag
  /\ urlCalls = EmptyBag
  /\ describeCalls = EmptyBag
  /\ composeCalls = EmptyBag
  /\ opsLeft = MaxDirectOps
  /\ last = initialStep
  /\ quiet = FALSE
  /\ loadedImage = unloadedImage
  /\ finalFrom = null

\* the operations invoked in any state
DirectSpec == InitDirect /\ [][NextDirect]_vars

\* urlToDataUrl on its own: an image of any dimensions of Dims is fetched
\* and its onload handler sizes the canvas
InitNormalizer ==
  /\ state = initialState
  /\ fileReads = EmptyBag
  /\ urlCalls = EmptyBag
  /\ describeCalls = EmptyBag
  /\ composeCalls = EmptyBag
  /\ opsLeft = 0
  /\ last = initialStep
  /\ quiet = FALSE
  /\ \E w \in Dims, h \in Dims :
       loadedImage = [unloadedImage EXCEPT !.naturalWidth = w,
                                           !.naturalHeight = h]
  /\ finalFrom = null

imgOnload ==
  /\ ~loadedImage.loaded
  /\ loadedImage' =
       [loadedImage EXCEPT
          !.loaded = TRUE,
          !.canvas = canvasSize(loadedImage.naturalWidth,
                                loadedImage.naturalHeight)]
  /\ UNCHANGED <<state, fileReads, urlCalls, describeCalls, composeCalls,
                 opsLeft, last, quiet, finalFrom>>

NormalizerSpec == InitNormalizer /\ [][imgOnload]_vars

\* the fair specification: a run of at most MaxLiveOps user operations in
\* which every pending call completes
InitLive ==
  /\ state = initialState
  /\ fileReads = EmptyBag
  /\ urlCalls = EmptyBag
  /\ describeCalls = EmptyBag
  /\ composeCalls = EmptyBag
  /\ opsLeft = MaxLiveOps
  /\ last = initialStep
  /\ quiet = FALSE
  /\ loadedImage = unloadedImage
  /\ finalFrom = null

LiveSpec ==
  /\ InitLive /\ [][Next]_vars
  /\ WF_vars(readerOnloadend)
  /\ WF_vars(handleUrlImportResolved \/ handleUrlImportRejected)
  /\ WF_vars(handleAnalyzeImageResolved \/ handleAnalyzeImageRejected)
  /\ WF_vars(handleGenerateResolved \/ handleGenerateRejected)

\* ---------------------------------------------------------------- preview
\* the four elements of the preview panel
showLoading == state.isLoading \/ state.isLoadingUrl
showError == state.error # null /\ ~state.isLoading /\ ~state.isLoadingUrl
showPlaceholder ==
  /\ ~state.isLoading /\ ~state.isLoadingUrl
  /\ state.finalImageURI = null /\ state.error = null
showFinalImage ==
  state.finalImageURI # null /\ ~state.isLoading /\ ~state.isLoadingUrl

shownElements ==
  {e \in {"loading", "error", "placeholder", "final"} :
     \/ e = "loading" /\ showLoading
     \/ e = "error" /\ showError
     \/ e = "placeholder" /\ showPlaceholder
     \/ e = "final" /\ showFinalImage}

\* ---------------------------------------------------------------- claims
DescribeDone == last.op \in {"describeOk", "describeFail"}
CallDone ==
  {"describeOk", "describeFail", "composeOk", "composeFail", "urlOk",
   "urlFail"}
UserFields(s) == <<s.productImage, s.prompt, s.finalImageURI, s.error>>

\* C1: in every reachable state error and finalImage are never both present.
C1_ErrorAndFinalImageExclusive ==
  ~(state.error # null /\ state.finalImageURI # null)

\* C2: an automatic describe call is launched only by a step that changes
\* productImage (to a present image, while finalImage is absent); no other
\* state change, a compose() that clears a previous finalImage included,
\* launches one.
C2_AutoDescribeOnlyOnProductChange ==
  [][last'.auto => state'.productImage # state.productImage]_vars

\* C3: if every launched call eventually completes, each loading flag that
\* is true eventually becomes false.
C3_FlagsEventuallyCleared ==
  /\ state.isLoading ~> ~state.isLoading
  /\ state.isLoadingUrl ~> ~state.isLoadingUrl
  /\ state.isGeneratingPrompt ~> ~state.isGeneratingPrompt

\* C3 witness: a flag has been cleared by the failure of its call.
C3_Witness ==
  \/ last.op = "urlFail" /\ ~state.isLoadingUrl
  \/ last.op = "composeFail" /\ ~state.isLoading
  \/ last.op = "describeFail" /\ ~state.isGeneratingPrompt

\* C4: after reset() and until a new operation is invoked, the completion
\* of a describe, compose or URL-normalize call does not change
\* productImage, prompt, finalImage or error.
C4_StaleCompletionKeepsResetFields ==
  [][(quiet /\ last'.op \in CallDone) =>
       UserFields(state') = UserFields(state)]_vars

\* C5: the result of a describe call is written also when the call is
\* stale, that is when it was launched for an image other than the product
\* image present at its completion: its text becomes the prompt, its
\* failure the default prompt and the analysis error.
C5_StaleDescribeApplied ==
  (/\ DescribeDone
   /\ state.productImage # null
   /\ last.img # state.productImage)
    => IF last.op = "describeOk"
         THEN state.prompt = last.text
         ELSE state.prompt = defaultPrompt /\ state.error = analyzeErrorMessage

\* C5 witness: a describe call launched for an earlier image completed
\* after a later acquisition replaced productImage, and set the prompt.
C5_Witness ==
  /\ last.op = "describeOk"
  /\ state.productImage # null
  /\ last.img # state.productImage
  /\ state.prompt = last.text

\* C6: in every reachable state exactly one of the four preview elements
\* is shown.
C6_ExactlyOnePreviewElement == Cardinality(shownElements) = 1

\* C7: right after a compose call completes, either it succeeded and
\* finalImage is the image it returned, or it failed, finalImage is absent
\* and error is the composition-failure message.
C7_ComposeAllOrNothing ==
  /\ last.op = "composeOk" => state.finalImageURI = last.img
  /\ last.op = "composeFail" =>
       state.finalImageURI = null /\ state.error = composeErrorMessage

\* C8: right after acquireFromUrl(u) with non-empty u, every field is
\* reset except the URL text, which still equals u.
C8_UrlTextKeptWhileImporting ==
  last.op = "urlImport" =>
    state = [initialState EXCEPT !.isLoadingUrl = TRUE,
                                 !.productUrl = last.text]

\* C9: a step that makes productImage present (or replaces it) while
\* finalImage is absent launches a describe call for that image and leaves
\* describingImage true; right after a describe call completes or fails,
\* describingImage is false.
C9_AutoDescribeEngagedAndReleased ==
  [][/\ (/\ state'.productImage # null
         /\ state'.productImage # state.productImage
         /\ state'.finalImageURI = null)
        => /\ state'.isGeneratingPrompt
           /\ last'.auto
           /\ CopiesIn([img |-> state'.productImage], describeCalls')
                = CopiesIn([img |-> state'.productImage], describeCalls) + 1
     /\ last'.op \in {"describeOk", "describeFail"}
        => ~state'.isGeneratingPrompt]_vars

\* C9 witness: an acquisition installed a product image and its analysis
\* is pending.
C9_Witness ==
  /\ last.op \in {"fileLoaded", "urlOk"}
  /\ last.auto
  /\ state.isGeneratingPrompt
  /\ BagIn([img |-> state.productImage], describeCalls)

\* C10: right after a describe call fails, prompt is the default prompt,
\* error is the manual-description message and describingImage is false;
\* right after it succeeds, prompt is the returned text and describingImage
\* is false.
C10_DescribeOutcome ==
  /\ last.op = "describeFail" =>
       /\ state.prompt = defaultPrompt
       /\ state.error = analyzeErrorMessage
       /\ ~state.isGeneratingPrompt
  /\ last.op = "describeOk" =>
       /\ state.prompt = last.text
       /\ ~state.isGeneratingPrompt

\* C10 witness: a describe call has just failed and left the default
\* prompt, the analysis message and a cleared flag.
C10_Witness ==
  /\ last.op = "describeFail"
  /\ ~state.isGeneratingPrompt
  /\ state.prompt = defaultPrompt
  /\ state.error = analyzeErrorMessage

\* C11: right after the Normalizer fails during acquireFromUrl(u), error is
\* the Normalizer's message (the generic import message when it has none),
\* productImage is absent and importingFromUrl is false; importingFromUrl
\* is false right after a successful import too.
C11_UrlImportOutcome ==
  /\ last.op = "urlFail" =>
       /\ state.error =
            IF last.err # "" THEN last.err ELSE unknownImportMessage
       /\ state.productImage = null
       /\ ~state.isLoadingUrl
  /\ last.op = "urlOk" => ~state.isLoadingUrl

PendingCalls == <<fileReads, urlCalls, describeCalls, composeCalls>>

\* C12: compose() invoked where productImage is absent or prompt is empty
\* changes no field of the state and launches no call.
C12_ComposeNoOpWithoutInput ==
  [][(/\ opsLeft' # opsLeft
      /\ last'.op = "generate"
      /\ (state.productImage = null \/ state.prompt = ""))
       => state' = state /\ PendingCalls' = PendingCalls]_vars

\* C12 witness: compose() has just been invoked with no product image or
\* an empty prompt.
C12_Witness ==
  /\ last.op = "generate"
  /\ (state.productImage = null \/ state.prompt = "")
  /\ ~state.isLoading

\* C13: acquireFromUrl invoked while sourceUrl is empty changes no field of
\* the state and launches no call.
C13_EmptyUrlImportNoOp ==
  [][(/\ opsLeft' # opsLeft
      /\ last'.op = "urlImport"
      /\ state.productUrl = "")
       => state' = state /\ PendingCalls' = PendingCalls]_vars

\* C13 witness: acquireFromUrl has just been invoked with an empty URL
\* text, in a state that a reset would have changed.
C13_Witness ==
  /\ last.op = "urlImport"
  /\ last.text = ""
  /\ state.productImage # null
  /\ ~state.isLoadingUrl

\* C14: reset() sets productImage, finalImage and error to absent,
\* composing and importingFromUrl to false, sourceUrl to empty and prompt
\* to the default, and leaves describingImage as it was.
C14_ResetFrame ==
  [][(opsLeft' # opsLeft /\ last'.op = "reset")
       => state' = [initialState EXCEPT
                      !.isGeneratingPrompt = state.isGeneratingPrompt]]_vars

\* C14 witness: reset() has just been invoked while a describe call is in
\* flight, and describingImage is still true.
C14_Witness ==
  /\ last.op = "reset"
  /\ state.isGeneratingPrompt
  /\ describeCalls # EmptyBag

\* C19: reset() invoked right after reset() leaves the state as the first
\* one left it.
C19_ResetIdempotent ==
  [][(opsLeft' # opsLeft /\ last.op = "reset" /\ last'.op = "reset")
       => state' = state]_vars

\* C19 witness: reset() has just been invoked twice in a row.
C19_Witness == last.op = "reset" /\ last.text = "again"

\* C15: a run of acquireFromFile(I1), its read, the automatic describe
\* returning T1, compose() and the Gateway returning F1, with no other step
\* in between, launches the compose call with (I1, T1) and ends with
\* productImage = I1, prompt = T1, finalImage = F1, error absent and the
\* three loading flags false.
C15_ScenarioA ==
  [][/\ last'.run = 4 =>
          composeCalls' =
            composeCalls (+) SetToBag({[img |-> "I1", prompt |-> "T1"]})
     /\ last'.run = 5 =>
          state' = [productImage |-> "I1", prompt |-> "T1",
                    isLoading |-> FALSE, error |-> null,
                    finalImageURI |-> "F1", productUrl |-> "",
                    isLoadingUrl |-> FALSE, isGeneratingPrompt |-> FALSE]]_vars

\* C15 witness: the run has just ended.
C15_Witness == last.run = 5 /\ state.finalImageURI = "F1"

\* the messages the handlers of App choose themselves
OrchestratorMessages ==
  {analyzeErrorMessage, composeErrorMessage, unknownImportMessage}

\* C16 (as stated): whenever error is present it is one of the
\* Orchestrator's own messages, never the message carried by a Normalizer
\* or Gateway failure.
C16_ErrorNeverRawMessage ==
  state.error # null => state.error \in OrchestratorMessages

\* C16 (amended): whenever error is present it is one of the Orchestrator's
\* own messages or the message of a Normalizer failure, and never the
\* message carried by a Gateway failure.
C16_ErrorFromFixedSet ==
  state.error # null =>
    /\ state.error \in OrchestratorMessages \cup NormalizerMessages
    /\ state.error \notin GatewayMessages

\* C16 witness: a failed import has just shown the Normalizer's message.
C16_Witness ==
  /\ last.op = "urlFail"
  /\ state.error = last.err
  /\ state.error \in NormalizerMessages

\* C17: right after the file read of acquireFromFile fails, productImage is
\* absent, no describe call was launched and error is set.
C17_FileReadFailureSurfaced ==
  (last.op = "fileLoaded" /\ last.img = null) =>
    /\ state.productImage = null
    /\ ~last.auto
    /\ state.error # null

\* C20: in every reachable state describingImage is true whenever a
\* describe call is in flight.
C20_DescribingWhileInFlight ==
  describeCalls # EmptyBag => state.isGeneratingPrompt

\* C18: an image of at most MAX_DIMENSION by MAX_DIMENSION keeps its
\* dimensions; for any other the larger target dimension is exactly
\* MAX_DIMENSION and the other is less than one away from the source's
\* other dimension times MAX_DIMENSION / max(w, h).
C18_TargetDimensions ==
  loadedImage.loaded =>
    LET w == loadedImage.naturalWidth
        h == loadedImage.naturalHeight
        c == loadedImage.canvas
        Near(t, x, big) ==
          /\ t * big > MAX_DIMENSION * x - big
          /\ t * big < MAX_DIMENSION * x + big
    IN  IF w <= MAX_DIMENSION /\ h <= MAX_DIMENSION
          THEN c = [width |-> w, height |-> h]
          ELSE /\ w >= h => c.width = MAX_DIMENSION /\ Near(c.height, h, w)
               /\ h >= w => c.height = MAX_DIMENSION /\ Near(c.width, w, h)

\* C21: in every reachable state composing is true whenever a compose call
\* is in flight, and at most one compose call is in flight.
C21_ComposingWhileInFlight ==
  /\ composeCalls # EmptyBag => state.isLoading
  /\ BagCardinality(composeCalls) <= 1

\* C22: in every reachable state where finalImage is present, productImage
\* is present and finalImage is the result of a compose call launched with
\* that productImage.
C22_FinalImageOfCurrentProduct ==
  state.finalImageURI # null =>
    /\ state.productImage # null
    /\ finalFrom = state.productImage

\* C23: both dimensions the onload handler gives the canvas are at least 1.
C23_CanvasNotEmpty ==
  loadedImage.loaded =>
    loadedImage.canvas.width >= 1 /\ loadedImage.canvas.height >= 1

====
